---- MODULE Spec2Model ----
(***************************************************************************)
(* Model of llm/download.py: one run of run_script, from argument parsing  *)
(* to process exit.  Every step that touches the registry, the remote hub, *)
(* the file system or the process exit status is one action; `pc' is the   *)
(* position of the single thread of control.                               *)
(*                                                                         *)
(* Strings that the code inspects by prefix or suffix (repo ids, file      *)
(* names, extensions, glob patterns) are sequences of tokens, so that      *)
(* startswith, re.search(...$) and fnmatch are computed, not assumed.      *)
(***************************************************************************)
EXTENDS Integers, Sequences, FiniteSets, Bags, TLC

VARIABLES
    args,        \* the parsed command line (argparse Namespace), never changed
    dl_model,    \* the DownloadDataModel instance
    pc,          \* position in run_script
    exit_code,   \* Running until the process ends, then 0 or 1
    stdout,      \* sequence of printed diagnostics
    mp_exists,   \* does model_path exist
    mp_files,    \* the files under model_path, as paths relative to it
    mo_exists,   \* does mar_output exist
    mo_files,    \* plain files directly in mar_output
    mo_dirs,     \* directories directly in mar_output: name -> set of files
    tmp_dir,     \* create_mar's local tmp_dir (a name in mar_output) or NoDir
    log,         \* history: the calls made so far, in order
    fs0,         \* history: the file system when the run started
    fn,          \* a pure function called on its own: its name, or "none"
    arg1,        \* its first argument
    arg2,        \* its second argument
    ret          \* <<>> before the call, <<value returned>> after it

vars == <<args, dl_model, pc, exit_code, stdout, mp_exists, mp_files,
          mo_exists, mo_files, mo_dirs, tmp_dir, log, fs0,
          fn, arg1, arg2, ret>>

purevars == <<fn, arg1, arg2, ret>>

inputs == <<args, fs0, purevars>>

fsvars == <<mp_exists, mp_files, mo_exists, mo_files, mo_dirs>>

-----------------------------------------------------------------------------
(* Bounds of the model *)

\* how many byproduct files the archive generator may leave beside the archive
MaxByproducts == 1

\* the longest list a pure function is called with
MaxLen == 3

-----------------------------------------------------------------------------
(* Values *)

Running == -1
None == "<None>"          \* Python's None for --hf_token (default=None)
NoDir == <<>>

Range(s) == {s[i] : i \in 1..Len(s)}

StartsWith(s, p) == Len(s) >= Len(p) /\ SubSeq(s, 1, Len(p)) = p

EndsWith(s, p) == Len(s) >= Len(p) /\ SubSeq(s, Len(s) - Len(p) + 1, Len(s)) = p

\* line 13
FILE_EXTENSIONS_TO_IGNORE ==
    << <<".safetensors">>, <<".safetensors", ".index", ".json">> >>

\* model_config.json: model name -> repo_id, repo_version, handler
models ==
    [n \in {"gpt2", "llama2"} |->
        IF n = "gpt2"
        THEN [repo_id |-> <<"org", "/", "gpt2">>, repo_version |-> "v1",
              handler |-> "gpt2_handler.py"]
        ELSE [repo_id |-> <<"meta-llama", "/", "Llama-2-7b">>,
              repo_version |-> "v1", handler |-> "llama_handler.py"]]

\* the hub: the revisions that exist in every registered repository
RemoteRevisions == {"v1", "v2", "v3", "v4"}

\* the hub: list_repo_files of a repository at a revision
\* (paths relative to the repository root: a file of a subfolder is listed
\* as "folder/name"; a name may end in a newline)
RemoteFiles(repo_id, revision) ==
    IF revision = "v1"
    THEN << <<"config", ".json">>, <<"model", ".bin">>,
            <<"model", ".safetensors">>,
            <<"model", ".safetensors", ".index", ".json">> >>
    ELSE IF revision = "v3"
    THEN << <<"config", ".json">>, <<"onnx", "/", "model", ".onnx">>,
            <<"model", ".safetensors">> >>
    ELSE IF revision = "v4"
    THEN << <<"config", ".json">>, <<"model", ".safetensors", "\n">> >>
    ELSE << <<"model", ".bin">>, <<"config", ".json">>,
            <<"model", ".safetensors", ".old">>,
            <<"model", ".safetensors">> >>

-----------------------------------------------------------------------------
(* Pure functions of download.py *)

\* lines 44-45
get_ignore_pattern_list(extension_list) ==
    [i \in 1..Len(extension_list) |-> <<"*">> \o extension_list[i]]

\* lines 48-49: Counter(list1) == Counter(list2)
Counter(list) ==
    [x \in Range(list) |-> Cardinality({i \in 1..Len(list) : list[i] = x})]

\* set(list1) == set(list2) in place of the Counter comparison
compare_lists_AsSets(list1, list2) == Range(list1) = Range(list2)

compare_lists(list1, list2) == Counter(list1) = Counter(list2)

\* re.search(re.escape(suffix) + '$', filename): `$' matches at the end of
\* the string and also just before a newline that ends the string
ReSearchSuffix(suffix, filename) ==
    \/ EndsWith(filename, suffix)
    \/ /\ Len(filename) > 0
       /\ filename[Len(filename)] = "\n"
       /\ EndsWith(SubSeq(filename, 1, Len(filename) - 1), suffix)

\* line 53 and re.search of line 55: the alternation of the suffix patterns;
\* joined from an empty list the pattern is '', which is found in every string
PatternFound(extensions_to_remove, filename) ==
    \/ extensions_to_remove = <<>>
    \/ \E i \in 1..Len(extensions_to_remove) :
          ReSearchSuffix(extensions_to_remove[i], filename)

\* lines 52-56
RECURSIVE filter_files_by_extension(_, _)
filter_files_by_extension(filenames, extensions_to_remove) ==
    IF filenames = <<>> THEN <<>>
    ELSE LET filename == Head(filenames)
             rest == filter_files_by_extension(Tail(filenames),
                                               extensions_to_remove)
         IN IF PatternFound(extensions_to_remove, filename)
            THEN rest
            ELSE <<filename>> \o rest

\* fnmatch of one "*" + extension pattern: `*' matches any prefix
GlobMatch(pattern, filename) ==
    /\ Head(pattern) = "*"
    /\ EndsWith(filename, Tail(pattern))

\* names built by f-strings
MarName(model_name, repo_version) == <<model_name, "_", repo_version, ".mar">>
TmpName(model_name, repo_version) == <<"tmp_", model_name, "_", repo_version>>
OldName(model_name) == <<model_name, ".mar">>

\* the entry of the directory that holds the file of a relative path: the
\* name before the first separator
TopLevel(path) ==
    IF \E i \in 1..Len(path) : path[i] = "/"
    THEN SubSeq(path, 1,
                (CHOOSE i \in 1..Len(path) :
                    /\ path[i] = "/"
                    /\ \A j \in 1..(i - 1) : path[j] # "/") - 1)
    ELSE path

\* os.listdir returns the name of each entry of the directory itself (a
\* subfolder once, by its name) in arbitrary order
os_listdir(files) ==
    LET names == {TopLevel(f) : f \in files}
    IN {s \in [1..Cardinality(names) -> names] : Range(s) = names}

\* os.path.exists of a name directly inside mar_output
ExistsInMarOutput(name) ==
    mo_exists /\ (name \in mo_files \/ name \in DOMAIN mo_dirs)

Logged(op, result) ==
    log \o <<[op |-> op, repo_id |-> dl_model.repo_id,
              revision |-> dl_model.repo_version, result |-> result]>>

\* sys.exit() without the status: the process ends with 0
Exit1_NoStatus(msg) ==
    /\ pc' = "exit"
    /\ exit_code' = 0
    /\ stdout' = Append(stdout, msg)

\* sys.exit(1) after print(msg)
Exit1(msg) ==
    /\ pc' = "exit"
    /\ exit_code' = 1
    /\ stdout' = Append(stdout, msg)

\* an exception nobody catches: traceback on stderr, exit status 1
Uncaught ==
    /\ pc' = "exit"
    /\ exit_code' = 1
    /\ stdout' = Append(stdout, [msg |-> "traceback", list |-> {}])

-----------------------------------------------------------------------------
(* Helpers of utils.system_utils and utils.shell_utils *)

\* check_if_path_exists(path, err): the process goes on iff the path exists
check_if_path_exists(exists) == exists

\* check_if_folder_empty(path)
check_if_folder_empty(files) == files = {}

\* rm_dir(path): removes the directory and all it holds, if it is there
rm_dir(dirs, name) == [d \in (DOMAIN dirs) \ {name} |-> dirs[d]]

\* create_folder_if_not_exists(path)
create_folder_if_not_exists(dirs, name) ==
    IF name \in DOMAIN dirs THEN dirs ELSE dirs @@ (name :> {})

-----------------------------------------------------------------------------
(* Inputs *)

ModelNames == {"gpt2", "llama2", "bert"}
RepoVersions == {"", "v2", "v3", "v4", "bad"}
HandlerPaths == {<<>>, <<"my_handler.py">>}
Tokens == {None, "hf_tok"}

Config == <<"config", ".json">>
Bin == <<"model", ".bin">>
Safetensors == <<"model", ".safetensors">>
SafetensorsOld == <<"model", ".safetensors", ".old">>
Bystander == <<"other", ".mar">>
Stale == <<"stale", ".bin">>

\* what model_path may hold when the run starts
InitialModelFiles ==
    { {}, {Config, Bin}, {Config, Bin, SafetensorsOld}, {Config},
      {Config, Bin, Safetensors} }

Byproduct(i) == <<"byproduct", ToString(i)>>

Msg(m) == [msg |-> m, list |-> {}]

-----------------------------------------------------------------------------
(* The run *)

\* lines 18-27: the class attributes of DownloadDataModel
DownloadDataModel ==
    [model_name |-> "", model_path |-> "", download_model |-> FALSE,
     mar_output |-> "", repo_id |-> <<>>, repo_version |-> "",
     handler_path |-> <<>>, hf_token |-> "", debug |-> FALSE]

Init ==
    /\ args \in [model_name : ModelNames, repo_version : RepoVersions,
                 no_download : BOOLEAN, model_path : {"/models"},
                 mar_output : {"/mar"}, handler_path : HandlerPaths,
                 hf_token : Tokens, debug : {FALSE}]
    /\ dl_model = DownloadDataModel
    /\ pc = "set_values"
    /\ exit_code = Running
    /\ stdout = <<>>
    /\ mp_exists \in BOOLEAN
    /\ mp_files \in (IF mp_exists THEN InitialModelFiles ELSE {{}})
    /\ mo_exists \in BOOLEAN
    /\ mo_files \in (IF mo_exists
                     THEN {{Bystander} \cup {MarName(args.model_name, r) : r \in R} :
                             R \in SUBSET {"v1", "v2"}}
                     ELSE {{}})
    /\ mo_dirs \in (IF mo_exists
                    THEN {<<>>} \cup
                         {(TmpName(args.model_name, r) :> {Stale}) :
                             r \in {"v1", "v2"}}
                    ELSE {<<>>})
    /\ tmp_dir = NoDir
    /\ log = <<>>
    /\ fs0 = [mp_files |-> mp_files, mo_files |-> mo_files, mo_dirs |-> mo_dirs]
    /\ fn = "none" /\ arg1 = <<>> /\ arg2 = <<>> /\ ret = <<>>

\* set_values taking --no_download for its name: download_model negated
set_values_Negated ==
    /\ pc = "set_values"
    /\ dl_model' = [dl_model EXCEPT
                      !.model_name = args.model_name,
                      !.repo_version = args.repo_version,
                      !.model_path = args.model_path,
                      !.download_model = ~args.no_download,
                      !.mar_output = args.mar_output,
                      !.handler_path = args.handler_path,
                      !.hf_token = args.hf_token,
                      !.debug = args.debug]
    /\ pc' = "get_repo_id_and_version"
    /\ UNCHANGED <<inputs, exit_code, stdout, fsvars, tmp_dir, log>>

\* lines 30-39
set_values ==
    /\ pc = "set_values"
    /\ dl_model' = [dl_model EXCEPT
                      !.model_name = args.model_name,
                      !.repo_version = args.repo_version,
                      !.model_path = args.model_path,
                      !.download_model = args.no_download,
                      !.mar_output = args.mar_output,
                      !.handler_path = args.handler_path,
                      !.hf_token = args.hf_token,
                      !.debug = args.debug]
    /\ pc' = "get_repo_id_and_version"
    /\ UNCHANGED <<inputs, exit_code, stdout, fsvars, tmp_dir, log>>

\* a bare `except:' in place of `except Exception'
Caught_All(exc) == TRUE

\* line 108: except Exception -- which raised things the handler catches
Caught(exc) == exc = "Exception"

\* the override ignored: the registry default is always taken
ResolveVersion_AlwaysDefault(repo_version, default) == default

\* lines 99-100
ResolveVersion(repo_version, default) ==
    IF repo_version = "" THEN default ELSE repo_version

\* line 102
TokenMissing(repo_id, hf_token) ==
    StartsWith(repo_id, <<"meta-llama">>) /\ hf_token = None

\* the key list cut short by one
AvailableModels_Short == (DOMAIN models) \ {CHOOSE n \in DOMAIN models : TRUE}

\* line 113: list(models.keys())
AvailableModels == DOMAIN models

\* lines 91-104 and 111-114: the registry lookup
get_repo_id_and_version ==
    /\ pc = "get_repo_id_and_version"
    /\ IF dl_model.model_name \in DOMAIN models
       THEN LET entry == models[dl_model.model_name]
                resolved == [dl_model EXCEPT
                               !.repo_id = entry.repo_id,
                               !.repo_version =
                                   ResolveVersion(dl_model.repo_version,
                                                  entry.repo_version)]
            IN /\ dl_model' = resolved
               /\ IF TokenMissing(resolved.repo_id, resolved.hf_token)
                  THEN \* sys.exit(1) raises SystemExit inside the try block
                       /\ pc' = "exit"
                       /\ exit_code' = 1
                       /\ stdout' =
                            IF Caught("SystemExit")
                            THEN stdout \o <<Msg("hf_token_required"),
                                             Msg("check_repo_id_or_repo_version")>>
                            ELSE Append(stdout, Msg("hf_token_required"))
                  ELSE /\ pc' = "list_repo_commits"
                       /\ UNCHANGED <<exit_code, stdout>>
       ELSE /\ Exit1([msg |-> "check_model_name", list |-> AvailableModels])
            /\ UNCHANGED dl_model
    /\ log' = Append(log, [op |-> "registry_lookup", repo_id |-> dl_model'.repo_id,
                           revision |-> dl_model'.repo_version,
                           result |-> IF pc' = "exit" THEN "exit" ELSE "ok"])
    /\ UNCHANGED <<inputs, fsvars, tmp_dir>>

\* the handler of lines 108-110 with its sys.exit(1) left out
list_repo_commits_Swallow ==
    /\ pc = "list_repo_commits"
    /\ \E network_ok \in BOOLEAN :
         LET ok == network_ok /\ dl_model.repo_version \in RemoteRevisions
         IN /\ log' = Logged("list_repo_commits", IF ok THEN "ok" ELSE "raise")
            /\ stdout' = IF ok THEN stdout
                         ELSE Append(stdout, Msg("check_repo_id_or_repo_version"))
    /\ pc' = "check_model_path"
    /\ UNCHANGED <<inputs, dl_model, exit_code, fsvars, tmp_dir>>

\* lines 106-110: the remote existence check
list_repo_commits ==
    /\ pc = "list_repo_commits"
    /\ \E network_ok \in BOOLEAN :
         IF network_ok /\ dl_model.repo_version \in RemoteRevisions
         THEN /\ pc' = "check_model_path"
              /\ log' = Logged("list_repo_commits", "ok")
              /\ UNCHANGED <<exit_code, stdout>>
         ELSE \* the client raises; the handler of line 108 decides
              /\ log' = Logged("list_repo_commits", "raise")
              /\ IF Caught("Exception")
                 THEN Exit1(Msg("check_repo_id_or_repo_version"))
                 ELSE Uncaught
    /\ UNCHANGED <<inputs, dl_model, fsvars, tmp_dir>>

\* line 161
check_model_path ==
    /\ pc = "check_model_path"
    /\ IF check_if_path_exists(mp_exists)
       THEN /\ pc' = "check_mar_output"
            /\ log' = Logged("check_model_path", "ok")
            /\ UNCHANGED <<exit_code, stdout>>
       ELSE /\ Exit1(Msg("filepath_does_not_exist_model_path"))
            /\ log' = Logged("check_model_path", "exit")
    /\ UNCHANGED <<inputs, dl_model, fsvars, tmp_dir>>

\* line 162
check_mar_output ==
    /\ pc = "check_mar_output"
    /\ IF check_if_path_exists(mo_exists)
       THEN /\ pc' = "check_if_mar_exists"
            /\ log' = Logged("check_mar_output", "ok")
            /\ UNCHANGED <<exit_code, stdout>>
       ELSE /\ Exit1(Msg("filepath_does_not_exist_mar_output"))
            /\ log' = Logged("check_mar_output", "exit")
    /\ UNCHANGED <<inputs, dl_model, fsvars, tmp_dir>>

\* check_if_mar_exists looking for the revision as typed on the command line
check_if_mar_exists_RawVersion ==
    /\ pc = "check_if_mar_exists"
    /\ IF ExistsInMarOutput(MarName(dl_model.model_name, args.repo_version))
       THEN /\ Exit1(Msg("mar_file_already_present"))
            /\ log' = Logged("check_if_mar_exists", "exit")
       ELSE /\ pc' = IF dl_model.download_model THEN "run_download"
                                                ELSE "create_mar"
            /\ log' = Logged("check_if_mar_exists", "ok")
            /\ UNCHANGED <<exit_code, stdout>>
    /\ UNCHANGED <<inputs, dl_model, fsvars, tmp_dir>>

\* check_if_mar_exists with the sys.exit(1) of line 63 left out
check_if_mar_exists_NoExit ==
    /\ pc = "check_if_mar_exists"
    /\ LET present == ExistsInMarOutput(MarName(dl_model.model_name,
                                                dl_model.repo_version))
       IN /\ stdout' = IF present
                       THEN Append(stdout, Msg("mar_file_already_present"))
                       ELSE stdout
          /\ log' = Logged("check_if_mar_exists",
                           IF present THEN "exit" ELSE "ok")
    /\ pc' = IF dl_model.download_model THEN "run_download" ELSE "create_mar"
    /\ UNCHANGED <<inputs, dl_model, exit_code, fsvars, tmp_dir>>

\* lines 59-63 and the branch of line 165
check_if_mar_exists ==
    /\ pc = "check_if_mar_exists"
    /\ IF ExistsInMarOutput(MarName(dl_model.model_name, dl_model.repo_version))
       THEN /\ Exit1(Msg("mar_file_already_present"))
            /\ log' = Logged("check_if_mar_exists", "exit")
       ELSE /\ pc' = IF dl_model.download_model THEN "run_download"
                                                ELSE "create_mar"
            /\ log' = Logged("check_if_mar_exists", "ok")
            /\ UNCHANGED <<exit_code, stdout>>
    /\ UNCHANGED <<inputs, dl_model, fsvars, tmp_dir>>

\* run_download with the sys.exit(1) of line 120 left out
run_download_NoExit ==
    /\ pc = "run_download"
    /\ LET empty == check_if_folder_empty(mp_files)
       IN /\ log' = Logged("check_if_folder_empty",
                           IF empty THEN "ok" ELSE "exit")
          /\ stdout' = IF empty THEN stdout
                       ELSE Append(stdout, Msg("model_path_not_empty"))
    /\ pc' = "snapshot_download"
    /\ UNCHANGED <<inputs, dl_model, exit_code, fsvars, tmp_dir>>

\* lines 117-120
run_download ==
    /\ pc = "run_download"
    /\ IF check_if_folder_empty(mp_files)
       THEN /\ pc' = "snapshot_download"
            /\ log' = Logged("check_if_folder_empty", "ok")
            /\ UNCHANGED <<exit_code, stdout>>
       ELSE /\ Exit1(Msg("model_path_not_empty"))
            /\ log' = Logged("check_if_folder_empty", "exit")
    /\ UNCHANGED <<inputs, dl_model, fsvars, tmp_dir>>

\* the files a snapshot download of the revision writes: the remote files
\* that none of the ignore patterns matches
SnapshotFiles(repo_id, revision, ignore_patterns) ==
    {f \in Range(RemoteFiles(repo_id, revision)) :
        ~ \E i \in 1..Len(ignore_patterns) : GlobMatch(ignore_patterns[i], f)}

\* lines 122-130: the client either completes, or raises after having
\* written some of the files
snapshot_download ==
    /\ pc = "snapshot_download"
    /\ LET wanted == SnapshotFiles(dl_model.repo_id, dl_model.repo_version,
                         get_ignore_pattern_list(FILE_EXTENSIONS_TO_IGNORE))
       IN \/ /\ mp_files' = mp_files \cup wanted
             /\ pc' = "create_mar"
             /\ log' = Logged("snapshot_download", "ok")
             /\ UNCHANGED <<exit_code, stdout>>
          \/ /\ \E part \in SUBSET wanted :
                  /\ part # wanted
                  /\ mp_files' = mp_files \cup part
             /\ Uncaught
             /\ log' = Logged("snapshot_download", "raise")
    /\ UNCHANGED <<inputs, dl_model, mp_exists, mo_exists, mo_files, mo_dirs,
                   tmp_dir>>

\* lines 66-71
check_if_model_files_exist(extra_files_list, repo_files) ==
    compare_lists(extra_files_list,
                  filter_files_by_extension(repo_files,
                                            FILE_EXTENSIONS_TO_IGNORE))

\* create_mar with the staging directory of line 143 made before the
\* reconciliation of line 134
create_mar_StageFirst ==
    /\ pc = "create_mar"
    /\ \E network_ok \in BOOLEAN, extra_files_list \in os_listdir(mp_files) :
         LET dir_name == TmpName(dl_model.model_name, dl_model.repo_version)
         IN /\ mo_dirs' = create_folder_if_not_exists(rm_dir(mo_dirs, dir_name),
                                                      dir_name)
            /\ tmp_dir' = dir_name
            /\ IF ~network_ok
               THEN /\ Uncaught
                    /\ log' = Logged("list_repo_files", "raise")
               ELSE IF check_if_model_files_exist(
                           extra_files_list,
                           RemoteFiles(dl_model.repo_id, dl_model.repo_version))
                    THEN /\ pc' = "resolve_handler"
                         /\ log' = Logged("list_repo_files", "match")
                         /\ UNCHANGED <<exit_code, stdout>>
                    ELSE /\ Exit1(Msg("model_files_do_not_match"))
                         /\ log' = Logged("list_repo_files", "mismatch")
    /\ UNCHANGED <<inputs, dl_model, mp_exists, mp_files, mo_exists, mo_files>>

\* create_mar with the sys.exit(1) of line 136 left out
create_mar_NoExit ==
    /\ pc = "create_mar"
    /\ \E network_ok \in BOOLEAN, extra_files_list \in os_listdir(mp_files) :
         IF ~network_ok
         THEN /\ Uncaught
              /\ log' = Logged("list_repo_files", "raise")
         ELSE LET match == check_if_model_files_exist(
                               extra_files_list,
                               RemoteFiles(dl_model.repo_id,
                                           dl_model.repo_version))
              IN /\ pc' = "resolve_handler"
                 /\ log' = Logged("list_repo_files",
                                  IF match THEN "match" ELSE "mismatch")
                 /\ stdout' = IF match THEN stdout
                              ELSE Append(stdout, Msg("model_files_do_not_match"))
                 /\ UNCHANGED exit_code
    /\ UNCHANGED <<inputs, dl_model, fsvars, tmp_dir>>

\* lines 133-136: the reconciliation gate; list_repo_files may raise
create_mar ==
    /\ pc = "create_mar"
    /\ \E network_ok \in BOOLEAN, extra_files_list \in os_listdir(mp_files) :
         IF ~network_ok
         THEN /\ Uncaught
              /\ log' = Logged("list_repo_files", "raise")
         ELSE IF check_if_model_files_exist(
                     extra_files_list,
                     RemoteFiles(dl_model.repo_id, dl_model.repo_version))
              THEN /\ pc' = "resolve_handler"
                   /\ log' = Logged("list_repo_files", "match")
                   /\ UNCHANGED <<exit_code, stdout>>
              ELSE /\ Exit1(Msg("model_files_do_not_match"))
                   /\ log' = Logged("list_repo_files", "mismatch")
    /\ UNCHANGED <<inputs, dl_model, fsvars, tmp_dir>>

\* os.path.dirname(__file__): the directory of download.py
ScriptDir == <<"llm">>

\* os.path.join of a directory and a relative name
os_path_join(dir, name) == dir \o <<"/", name>>

\* lines 137-142 with the test of line 137 left out
resolve_handler_Always ==
    /\ pc = "resolve_handler"
    /\ dl_model' =
         IF dl_model.model_name \in DOMAIN models
         THEN [dl_model EXCEPT !.handler_path =
                  os_path_join(ScriptDir, models[dl_model.model_name].handler)]
         ELSE dl_model
    /\ pc' = "create_tmp_model_store"
    /\ UNCHANGED <<inputs, exit_code, stdout, fsvars, tmp_dir, log>>

\* lines 137-142
resolve_handler ==
    /\ pc = "resolve_handler"
    /\ dl_model' =
         IF dl_model.handler_path = <<>> /\ dl_model.model_name \in DOMAIN models
         THEN [dl_model EXCEPT !.handler_path =
                  os_path_join(ScriptDir, models[dl_model.model_name].handler)]
         ELSE dl_model
    /\ pc' = "create_tmp_model_store"
    /\ UNCHANGED <<inputs, exit_code, stdout, fsvars, tmp_dir, log>>

\* create_tmp_model_store with the rm_dir of line 77 left out
create_tmp_model_store_NoRm ==
    /\ pc = "create_tmp_model_store"
    /\ LET dir_name == TmpName(dl_model.model_name, dl_model.repo_version)
       IN /\ mo_dirs' = create_folder_if_not_exists(mo_dirs, dir_name)
          /\ tmp_dir' = dir_name
    /\ pc' = "generate_mars"
    /\ log' = Logged("create_tmp_model_store", "ok")
    /\ UNCHANGED <<inputs, dl_model, exit_code, stdout, mp_exists, mp_files,
                   mo_exists, mo_files>>

\* lines 74-79 and 145
create_tmp_model_store ==
    /\ pc = "create_tmp_model_store"
    /\ LET dir_name == TmpName(dl_model.model_name, dl_model.repo_version)
       IN /\ mo_dirs' = create_folder_if_not_exists(rm_dir(mo_dirs, dir_name),
                                                    dir_name)
          /\ tmp_dir' = dir_name
    /\ pc' = "generate_mars"
    /\ log' = Logged("create_tmp_model_store", "ok")
    /\ UNCHANGED <<inputs, dl_model, exit_code, stdout, mp_exists, mp_files,
                   mo_exists, mo_files>>

\* lines 147-150: the archive generator (utils.marsgen) writes into tmp_dir
\* and returns, with or without <model_name>.mar there
generate_mars ==
    /\ pc = "generate_mars"
    /\ \E n \in 0..MaxByproducts, archive \in BOOLEAN :
         mo_dirs' = [mo_dirs EXCEPT ![tmp_dir] =
                       @ \cup {Byproduct(i) : i \in 1..n}
                         \cup (IF archive THEN {OldName(dl_model.model_name)}
                                          ELSE {})]
    /\ pc' = "move_mar"
    /\ log' = Logged("generate_mars", "ok")
    /\ UNCHANGED <<exit_code, stdout>>
    /\ UNCHANGED <<inputs, dl_model, mp_exists, mp_files, mo_exists, mo_files,
                   tmp_dir>>

\* move_mar with the check_if_path_exists of line 87 left out: mv_file is
\* called whether or not src is there
move_mar_NoCheck ==
    /\ pc = "move_mar"
    /\ LET old_filename == OldName(dl_model.model_name)
           new_filename == MarName(dl_model.model_name, dl_model.repo_version)
       IN /\ mo_dirs' = [mo_dirs EXCEPT ![tmp_dir] = @ \ {old_filename}]
          /\ mo_files' = mo_files \cup {new_filename}
    /\ pc' = "rm_dir"
    /\ log' = Logged("move_mar", "ok")
    /\ UNCHANGED <<inputs, dl_model, exit_code, stdout, mp_exists, mp_files,
                   mo_exists, tmp_dir>>

\* move_mar with dst built from old_filename: the archive keeps its name
move_mar_KeepName ==
    /\ pc = "move_mar"
    /\ LET old_filename == OldName(dl_model.model_name)
       IN IF check_if_path_exists(old_filename \in mo_dirs[tmp_dir])
          THEN /\ mo_dirs' = [mo_dirs EXCEPT ![tmp_dir] = @ \ {old_filename}]
               /\ mo_files' = mo_files \cup {old_filename}
               /\ pc' = "rm_dir"
               /\ log' = Logged("move_mar", "ok")
               /\ UNCHANGED <<exit_code, stdout>>
          ELSE /\ Exit1(Msg("generated_mar_file_is_missing"))
               /\ log' = Logged("move_mar", "exit")
               /\ UNCHANGED <<mo_dirs, mo_files>>
    /\ UNCHANGED <<inputs, dl_model, mp_exists, mp_files, mo_exists, tmp_dir>>

\* lines 82-88 and 153
move_mar ==
    /\ pc = "move_mar"
    /\ LET old_filename == OldName(dl_model.model_name)
           new_filename == MarName(dl_model.model_name, dl_model.repo_version)
       IN IF check_if_path_exists(old_filename \in mo_dirs[tmp_dir])
          THEN /\ mo_dirs' = [mo_dirs EXCEPT ![tmp_dir] = @ \ {old_filename}]
               /\ mo_files' = mo_files \cup {new_filename}
               /\ pc' = "rm_dir"
               /\ log' = Logged("move_mar", "ok")
               /\ UNCHANGED <<exit_code, stdout>>
          ELSE /\ Exit1(Msg("generated_mar_file_is_missing"))
               /\ log' = Logged("move_mar", "exit")
               /\ UNCHANGED <<mo_dirs, mo_files>>
    /\ UNCHANGED <<inputs, dl_model, mp_exists, mp_files, mo_exists, tmp_dir>>

\* lines 155-156, then run_script returns and the interpreter exits with 0
remove_tmp_dir ==
    /\ pc = "rm_dir"
    /\ mo_dirs' = rm_dir(mo_dirs, tmp_dir)
    /\ stdout' = Append(stdout, Msg("mar_file_is_generated"))
    /\ pc' = "exit"
    /\ exit_code' = 0
    /\ log' = Logged("rm_dir", "ok")
    /\ UNCHANGED <<inputs, dl_model, mp_exists, mp_files, mo_exists, mo_files,
                   tmp_dir>>

\* lines 159-167
Next ==
    \/ set_values
    \/ get_repo_id_and_version
    \/ list_repo_commits
    \/ check_model_path
    \/ check_mar_output
    \/ check_if_mar_exists
    \/ run_download
    \/ snapshot_download
    \/ create_mar
    \/ resolve_handler
    \/ create_tmp_model_store
    \/ generate_mars
    \/ move_mar
    \/ remove_tmp_dir

Spec == Init /\ [][Next]_vars

\* lines 170-189: the script is started again with the same command line, on
\* the file system the run before left
run_again ==
    /\ pc = "exit"
    /\ pc' = "set_values"
    /\ dl_model' = DownloadDataModel
    /\ exit_code' = Running
    /\ stdout' = <<>>
    /\ tmp_dir' = NoDir
    /\ log' = <<>>
    /\ fs0' = [mp_files |-> mp_files, mo_files |-> mo_files, mo_dirs |-> mo_dirs]
    /\ UNCHANGED <<args, fsvars, purevars>>

NextRuns == Next \/ run_again

SpecRuns == Init /\ [][NextRuns]_vars

-----------------------------------------------------------------------------
(* The pure functions called on their own *)

runvars == <<args, dl_model, pc, exit_code, stdout, fsvars, tmp_dir, log, fs0>>

SafetensorsIndex == <<"model", ".safetensors", ".index", ".json">>
SafetensorsNewline == <<"model", ".safetensors", "\n">>
DotSafetensors == <<".safetensors">>

\* the lists of at most n elements of S
Lists(S, n) == UNION {[1..k -> S] : k \in 0..n}

ListNames == {Config, Safetensors, SafetensorsOld}

FilterNames ==
    {Config, Safetensors, SafetensorsOld, SafetensorsIndex, SafetensorsNewline,
     DotSafetensors}

ExtensionLists == {FILE_EXTENSIONS_TO_IGNORE, << <<".json">> >>, <<>>}

InitPure ==
    /\ args = [model_name |-> "gpt2", repo_version |-> "", no_download |-> TRUE,
               model_path |-> "/models", mar_output |-> "/mar",
               handler_path |-> <<>>, hf_token |-> None, debug |-> FALSE]
    /\ dl_model = DownloadDataModel
    /\ pc = "idle"
    /\ exit_code = Running
    /\ stdout = <<>>
    /\ mp_exists = TRUE /\ mp_files = {}
    /\ mo_exists = TRUE /\ mo_files = {} /\ mo_dirs = <<>>
    /\ tmp_dir = NoDir
    /\ log = <<>>
    /\ fs0 = [mp_files |-> {}, mo_files |-> {}, mo_dirs |-> <<>>]
    /\ fn \in {"compare_lists", "filter_files_by_extension",
                "check_if_model_files_exist"}
    /\ arg1 \in Lists(IF fn = "filter_files_by_extension" THEN FilterNames
                                                          ELSE ListNames, MaxLen)
    /\ arg2 \in (IF fn = "filter_files_by_extension" THEN ExtensionLists
                                                      ELSE Lists(ListNames, MaxLen))
    /\ ret = <<>>

\* lines 48-49
call_compare_lists ==
    /\ fn = "compare_lists" /\ ret = <<>>
    /\ ret' = <<compare_lists(arg1, arg2)>>
    /\ UNCHANGED <<runvars, fn, arg1, arg2>>

\* lines 52-56
call_filter_files_by_extension ==
    /\ fn = "filter_files_by_extension" /\ ret = <<>>
    /\ ret' = <<filter_files_by_extension(arg1, arg2)>>
    /\ UNCHANGED <<runvars, fn, arg1, arg2>>

\* lines 66-71, with arg1 the listing of model_path and arg2 the remote list
call_check_if_model_files_exist ==
    /\ fn = "check_if_model_files_exist" /\ ret = <<>>
    /\ ret' = <<check_if_model_files_exist(arg1, arg2)>>
    /\ UNCHANGED <<runvars, fn, arg1, arg2>>

NextPure ==
    \/ call_compare_lists
    \/ call_filter_files_by_extension
    \/ call_check_if_model_files_exist

SpecPure == InitPure /\ [][NextPure]_vars

-----------------------------------------------------------------------------
(* Vocabulary of the properties *)

Last == log[Len(log)]

Called(op) == \E i \in 1..Len(log) : log[i].op = op

LastIs(op, result) ==
    Len(log) > 0 /\ Last.op = op /\ Last.result = result

Registered == args.model_name \in DOMAIN models

\* the revision the run is for: the override, or the registry default
ExpectedVersion ==
    IF args.repo_version = "" THEN models[args.model_name].repo_version
    ELSE args.repo_version

\* the first five calls of a run that got past the archive-absence check
ChecksPassed ==
    /\ Len(log) >= 5
    /\ [j \in 1..5 |-> <<log[j].op, log[j].result>>] =
         << <<"registry_lookup", "ok">>, <<"list_repo_commits", "ok">>,
            <<"check_model_path", "ok">>, <<"check_mar_output", "ok">>,
            <<"check_if_mar_exists", "ok">> >>

ResolverOps == {"registry_lookup", "list_repo_commits"}

-----------------------------------------------------------------------------
(* C1 *)

\* C1 as stated: the registry lookup, the list_repo_commits call and the
\* download happen only after model_path and mar_output were validated and
\* the archive-absence check passed; a run that finds the archive present
\* exits with 1 without any resolution or download call.
C1_ResolverAndDownloadAfterChecks ==
    /\ \A i \in 1..Len(log) :
         log[i].op \in ResolverOps \cup {"snapshot_download"} =>
           \E a, b, c \in 1..(i - 1) :
              /\ a < b /\ b < c
              /\ log[a].op = "check_model_path" /\ log[a].result = "ok"
              /\ log[b].op = "check_mar_output" /\ log[b].result = "ok"
              /\ log[c].op = "check_if_mar_exists" /\ log[c].result = "ok"
    /\ LastIs("check_if_mar_exists", "exit") =>
         /\ exit_code = 1
         /\ ~ \E i \in 1..Len(log) :
                log[i].op \in ResolverOps \cup {"snapshot_download"}

\* C1 amended: the resolver runs first, before any path is validated; the
\* download happens only after the resolver succeeded, both paths were
\* validated and the archive-absence check passed, in that order.  A run
\* for which <model_name>_<revision>.mar is present ends with exit code 1 and
\* no download call; when it ends at the archive check, the calls made are
\* exactly the two resolver calls and the three checks.
C1_DownloadAfterResolverAndChecks ==
    /\ Len(log) >= 1 => log[1].op = "registry_lookup"
    /\ \A i \in 1..Len(log) :
         /\ log[i].op = "list_repo_commits" => i = 2
         /\ log[i].op = "check_model_path" =>
              i = 3 /\ log[2].op = "list_repo_commits" /\ log[2].result = "ok"
         /\ log[i].op = "snapshot_download" => i > 5 /\ ChecksPassed
    /\ (/\ Registered
        /\ MarName(args.model_name, ExpectedVersion) \in fs0.mo_files
        /\ pc = "exit") =>
         /\ exit_code = 1
         /\ ~Called("snapshot_download")
    /\ LastIs("check_if_mar_exists", "exit") =>
         /\ pc = "exit" /\ exit_code = 1
         /\ [j \in 1..Len(log) |-> log[j].op] =
              <<"registry_lookup", "list_repo_commits", "check_model_path",
                "check_mar_output", "check_if_mar_exists">>

\* C1: a downloading run that found the archive present and stopped
C1_Witness ==
    /\ pc = "exit"
    /\ LastIs("check_if_mar_exists", "exit")
    /\ dl_model.download_model
    /\ MarName(args.model_name, ExpectedVersion) \in fs0.mo_files

-----------------------------------------------------------------------------
(* C2 *)

\* C2 as stated: in every terminal state of a run that created the staging
\* directory, that directory no longer exists in the output directory.
C2_StagingAlwaysRemoved ==
    (pc = "exit" /\ tmp_dir # NoDir) => tmp_dir \notin DOMAIN mo_dirs

-----------------------------------------------------------------------------
(* C3 *)

\* C3: the staging directory is created and the archive generator is called
\* only after list_repo_files + compare returned a match in this run; on a
\* mismatch the run ends with exit code 1, the reconciliation step deletes
\* nothing from model_path, and the output directory is as it was at the
\* start (no staging directory, no generator call).
C3_PackagingOnlyAfterMatch ==
    /\ [](/\ \A i \in 1..Len(log) :
               log[i].op \in {"create_tmp_model_store", "generate_mars"} =>
                 \E j \in 1..(i - 1) :
                    log[j].op = "list_repo_files" /\ log[j].result = "match"
          /\ tmp_dir # NoDir => Called("create_tmp_model_store")
          /\ LastIs("list_repo_files", "mismatch") =>
               /\ pc = "exit" /\ exit_code = 1
               /\ tmp_dir = NoDir
               /\ mo_dirs = fs0.mo_dirs /\ mo_files = fs0.mo_files
               /\ fs0.mp_files \subseteq mp_files)
    /\ [][pc = "create_mar" => mp_files' = mp_files]_vars

\* C3: a run over a non-empty model_path that ended at the mismatch
C3_Witness ==
    /\ pc = "exit"
    /\ LastIs("list_repo_files", "mismatch")
    /\ mp_files # {}

-----------------------------------------------------------------------------
(* C4 *)

\* the output directory is as it was when the run started
OutputUntouched == mo_files = fs0.mo_files /\ mo_dirs = fs0.mo_dirs

\* C4: a run that creates the staging directory found no
\* <model_name>_<resolved revision>.mar in the output directory (the
\* revision being the registry default when the override is empty); the
\* archive-absence check stops the run exactly when that file is there, with
\* exit code 1 and the output directory untouched; and when the archive is
\* about to be moved its destination name is free.
C4_NoOverwrite ==
    /\ Called("create_tmp_model_store") =>
         /\ Registered
         /\ MarName(args.model_name, ExpectedVersion) \notin fs0.mo_files
         /\ MarName(args.model_name, ExpectedVersion) \notin DOMAIN fs0.mo_dirs
    /\ \A i \in 1..Len(log) :
         log[i].op = "check_if_mar_exists" =>
           (log[i].result = "exit" <=>
              MarName(args.model_name, ExpectedVersion) \in fs0.mo_files)
    /\ LastIs("check_if_mar_exists", "exit") =>
         /\ pc = "exit" /\ exit_code = 1
         /\ MarName(args.model_name, ExpectedVersion) \in mo_files
         /\ OutputUntouched
    /\ pc = "move_mar" =>
         MarName(dl_model.model_name, dl_model.repo_version) \notin mo_files

\* C4: the run was for the registry default revision and found its archive
C4_Witness ==
    /\ pc = "exit"
    /\ args.repo_version = ""
    /\ LastIs("check_if_mar_exists", "exit")
    /\ MarName(args.model_name, "v1") \in mo_files

-----------------------------------------------------------------------------
(* C5 *)

\* DONE: the success message of line 156 was printed
Done ==
    /\ Len(stdout) > 0
    /\ stdout[Len(stdout)] = Msg("mar_file_is_generated")

\* C5: at DONE the exit status is 0, the output directory holds what it
\* held at the start plus <model_name>_<revision>.mar, which move_mar took
\* out of the staging directory, and the staging directory is gone with all
\* it held, every other directory being as it was.
C5_DoneState ==
    Done =>
      LET new_filename == MarName(args.model_name, ExpectedVersion)
          staging == TmpName(args.model_name, ExpectedVersion)
      IN /\ pc = "exit" /\ exit_code = 0
         /\ new_filename \notin fs0.mo_files
         /\ mo_files = fs0.mo_files \cup {new_filename}
         /\ staging \notin DOMAIN mo_dirs
         /\ DOMAIN mo_dirs = (DOMAIN fs0.mo_dirs) \ {staging}
         /\ \A d \in DOMAIN mo_dirs : mo_dirs[d] = fs0.mo_dirs[d]
         /\ \E i, j \in 1..Len(log) :
               /\ i < j
               /\ log[i].op = "generate_mars" /\ log[i].result = "ok"
               /\ log[j].op = "move_mar" /\ log[j].result = "ok"

\* C5: DONE in an output directory that held a stale staging directory
C5_Witness ==
    /\ Done
    /\ exit_code = 0
    /\ TmpName(args.model_name, ExpectedVersion) \in DOMAIN fs0.mo_dirs

-----------------------------------------------------------------------------
(* C6 *)

\* C6: when the download is wanted (args.no_download is the should_download
\* value, store_false) and model_path is not empty, the download is never
\* called, model_path keeps its contents and the run ends with status 1;
\* the download is called only right after check_if_folder_empty found
\* model_path empty.
C6_NoDownloadIntoNonEmpty ==
    /\ (args.no_download /\ fs0.mp_files # {}) =>
         /\ ~Called("snapshot_download")
         /\ mp_files = fs0.mp_files
         /\ pc = "exit" => exit_code = 1
    /\ \A i \in 1..Len(log) :
         log[i].op = "snapshot_download" =>
           /\ i > 1
           /\ log[i - 1].op = "check_if_folder_empty"
           /\ log[i - 1].result = "ok"
           /\ fs0.mp_files = {}
    /\ LastIs("check_if_folder_empty", "exit") =>
         /\ pc = "exit" /\ exit_code = 1
         /\ mp_files # {} /\ mp_files = fs0.mp_files

\* C6: a downloading run stopped by a non-empty model_path
C6_Witness ==
    /\ pc = "exit"
    /\ dl_model.download_model
    /\ LastIs("check_if_folder_empty", "exit")

-----------------------------------------------------------------------------
(* C7 *)

PastResolver == pc \notin {"set_values", "get_repo_id_and_version"}

OpsOfLog == [j \in 1..Len(log) |-> log[j].op]

RemoteOps == {"list_repo_commits", "list_repo_files", "snapshot_download"}

PrivilegedNoToken ==
    /\ Registered
    /\ StartsWith(models[args.model_name].repo_id, <<"meta-llama">>)
    /\ args.hf_token = None

\* C7: for a repo_id with the privileged prefix and no token, the run ends in
\* the registry lookup with exit code 1, having printed the token diagnostic
\* and nothing else (not the repo_id/repo_version diagnostic), and having
\* made no remote call.
C7_TokenRequired ==
    (PrivilegedNoToken /\ PastResolver) =>
       /\ pc = "exit" /\ exit_code = 1
       /\ stdout = <<Msg("hf_token_required")>>
       /\ OpsOfLog = <<"registry_lookup">>
       /\ ~ \E op \in RemoteOps : Called(op)

\* C7: the run for the privileged repository without a token has ended
C7_Witness ==
    /\ PrivilegedNoToken
    /\ pc = "exit"
    /\ exit_code = 1

-----------------------------------------------------------------------------
(* C8 *)

\* C8: for a model name that is no key of the registry, the run ends in the
\* registry lookup with exit code 1, the printed list is the registry's key
\* set, and nothing else was called or changed.
C8_UnknownModel ==
    (~Registered /\ PastResolver) =>
       /\ pc = "exit" /\ exit_code = 1
       /\ stdout = <<[msg |-> "check_model_name", list |-> DOMAIN models]>>
       /\ OpsOfLog = <<"registry_lookup">>
       /\ tmp_dir = NoDir
       /\ OutputUntouched
       /\ mp_files = fs0.mp_files

\* C8: the run for an unregistered model name has ended
C8_Witness ==
    /\ ~Registered
    /\ pc = "exit"
    /\ Len(stdout) = 1

-----------------------------------------------------------------------------
(* C9 *)

\* C9: once the registry lookup is done, repo_version is the registry
\* default when the override was empty and the override otherwise, repo_id
\* is the registry's; every later call is made with that pair; the archive
\* check stops the run exactly for the archive of that revision; a finished
\* download wrote the files of that revision; the staging directory and the
\* final archive carry that revision in their names.
C9_ResolvedRevision ==
    Registered =>
      LET entry == models[args.model_name]
      IN /\ PastResolver =>
              /\ dl_model.repo_version = ExpectedVersion
              /\ dl_model.repo_id = entry.repo_id
         /\ \A i \in 1..Len(log) :
              /\ log[i].revision = ExpectedVersion
              /\ log[i].repo_id = entry.repo_id
              /\ log[i].op = "check_if_mar_exists" =>
                   (log[i].result = "ok" <=>
                      MarName(args.model_name, ExpectedVersion)
                         \notin fs0.mo_files)
         /\ LastIs("snapshot_download", "ok") =>
              mp_files = {f \in Range(RemoteFiles(entry.repo_id, ExpectedVersion)) :
                             \A k \in 1..Len(FILE_EXTENSIONS_TO_IGNORE) :
                                ~EndsWith(f, FILE_EXTENSIONS_TO_IGNORE[k])}
         /\ tmp_dir # NoDir =>
              tmp_dir = TmpName(args.model_name, ExpectedVersion)
         /\ exit_code = 0 =>
              MarName(args.model_name, ExpectedVersion) \in mo_files

\* C9: a run with an empty override downloaded, packaged and finished
C9_Witness ==
    /\ args.repo_version = ""
    /\ exit_code = 0
    /\ Called("snapshot_download")
    /\ dl_model.repo_version = "v1"

-----------------------------------------------------------------------------
(* C10 *)

\* C10: list_repo_commits is called at most once in a run; when it raises,
\* the run ends there with exit code 1 and the repo_id/repo_version
\* diagnostic as its only output, no later step having run and nothing on
\* the file system having changed.
C10_ResolutionFailure ==
    /\ Cardinality({i \in 1..Len(log) : log[i].op = "list_repo_commits"}) <= 1
    /\ (\E i \in 1..Len(log) :
           log[i].op = "list_repo_commits" /\ log[i].result = "raise") =>
         /\ pc = "exit" /\ exit_code = 1
         /\ LastIs("list_repo_commits", "raise")
         /\ OpsOfLog = <<"registry_lookup", "list_repo_commits">>
         /\ stdout = <<Msg("check_repo_id_or_repo_version")>>
         /\ tmp_dir = NoDir
         /\ OutputUntouched
         /\ mp_files = fs0.mp_files

\* C10: the revision asked for does not exist on the hub and the run ended
C10_Witness ==
    /\ pc = "exit"
    /\ args.repo_version = "bad"
    /\ LastIs("list_repo_commits", "raise")

-----------------------------------------------------------------------------
(* C11 *)

\* the ways a run ends without reaching DONE: the call that ended it
AbortPaths ==
    { <<"registry_lookup", "exit">>,        \* unknown model, missing token
      <<"list_repo_commits", "raise">>,     \* repository or revision unconfirmed
      <<"check_model_path", "exit">>,       \* model_path missing
      <<"check_mar_output", "exit">>,       \* mar_output missing
      <<"check_if_mar_exists", "exit">>,    \* archive already there
      <<"check_if_folder_empty", "exit">>,  \* model_path not empty
      <<"snapshot_download", "raise">>,     \* download failure
      <<"list_repo_files", "raise">>,       \* remote listing failure
      <<"list_repo_files", "mismatch">>,    \* reconciliation mismatch
      <<"move_mar", "exit">> }              \* generated archive missing

\* C11: while the run goes on there is no exit status; a run that has ended
\* has status 0 or 1, it has 0 exactly when it reached DONE, and it has 1
\* exactly when it was ended by one of the abort paths.
C11_ExitStatus ==
    /\ pc # "exit" => (exit_code = Running /\ ~Done)
    /\ pc = "exit" =>
         /\ exit_code \in {0, 1}
         /\ exit_code = 0 <=> Done
         /\ exit_code = 0 <=> LastIs("rm_dir", "ok")
         /\ exit_code = 1 <=> <<Last.op, Last.result>> \in AbortPaths

\* C11: the download failed and the run ended
C11_Witness ==
    /\ pc = "exit"
    /\ exit_code = 1
    /\ LastIs("snapshot_download", "raise")

-----------------------------------------------------------------------------
(* C12 *)

CountOf(x, list) == Cardinality({i \in 1..Len(list) : list[i] = x})

\* every name occurs as often in the one list as in the other
SameMultiset(list1, list2) ==
    \A x \in Range(list1) \cup Range(list2) :
       CountOf(x, list1) = CountOf(x, list2)

\* C12: compare_lists returns true exactly when every file name occurs the
\* same number of times in both lists, whatever their order;
\* check_if_model_files_exist returns true exactly when the listing of
\* model_path and the filtered remote list are equal in that sense.
C12_MultisetEquality ==
    /\ (fn = "compare_lists" /\ ret # <<>>) =>
         (ret[1] <=> SameMultiset(arg1, arg2))
    /\ (fn = "check_if_model_files_exist" /\ ret # <<>>) =>
         (ret[1] <=>
            SameMultiset(arg1,
                         filter_files_by_extension(arg2,
                                                   FILE_EXTENSIONS_TO_IGNORE)))

\* C12: two lists with the same names in another order and another number
\* of duplicates compared unequal
C12_Witness ==
    /\ fn = "compare_lists"
    /\ Range(arg1) = Range(arg2)
    /\ Len(arg1) # Len(arg2)
    /\ Len(arg1) > 1 /\ arg1[1] # arg2[1]
    /\ ret = <<FALSE>>

-----------------------------------------------------------------------------
(* C13 *)

\* the file name ends with one of the entries of the ignore list arg2
EndsWithEntry(filename) ==
    \E i \in 1..Len(arg2) : EndsWith(filename, arg2[i])

KeptName(filename) == ~EndsWithEntry(filename)

\* C13 as stated: filter_files_by_extension removes exactly the file names
\* that end with an entry of the ignore list and returns the others in their
\* order, each as often as it was given.
C13_RemovesExactlySuffixMatches ==
    (fn = "filter_files_by_extension" /\ ret # <<>>) =>
       ret[1] = SelectSeq(arg1, KeptName)

-----------------------------------------------------------------------------
(* C14 *)

\* C14: whatever the output directory held when the run started -- no
\* staging directory, one left empty, or one left with files by a run that
\* failed -- create_tmp_model_store goes through, and right after it the
\* directory tmp_<model_name>_<revision> exists and is empty, every other
\* directory and every file of the output directory being as before.
C14_StagingBegin ==
    /\ pc = "create_tmp_model_store" => ENABLED create_tmp_model_store
    /\ LastIs("create_tmp_model_store", "ok") =>
         LET staging == TmpName(args.model_name, ExpectedVersion)
         IN /\ pc = "generate_mars" /\ exit_code = Running
            /\ tmp_dir = staging
            /\ staging \in DOMAIN mo_dirs
            /\ mo_dirs[staging] = {}
            /\ DOMAIN mo_dirs = (DOMAIN fs0.mo_dirs) \cup {staging}
            /\ \A d \in (DOMAIN mo_dirs) \ {staging} : mo_dirs[d] = fs0.mo_dirs[d]
            /\ mo_files = fs0.mo_files

\* C14: the staging directory was created again over the one that the run
\* before, whose archive generator left no archive, had left with a file
C14_Witness ==
    /\ LastIs("create_tmp_model_store", "ok")
    /\ tmp_dir \in DOMAIN fs0.mo_dirs
    /\ Byproduct(1) \in fs0.mo_dirs[tmp_dir]
    /\ mo_dirs[tmp_dir] = {}

-----------------------------------------------------------------------------
(* C15 *)

\* the archive generator has returned and tmp_dir holds no <model_name>.mar
ArchiveMissing ==
    /\ pc = "move_mar"
    /\ OldName(args.model_name) \notin mo_dirs[tmp_dir]

\* C15: when the archive generator has returned without <model_name>.mar in
\* the staging directory, the next step ends the run with exit code 1 and
\* the missing-file diagnostic and moves nothing; in the state it ends in,
\* the files of the output directory are those of the start and
\* <model_name>_<revision>.mar is not among them.
C15_MissingArtifact ==
    /\ [][ArchiveMissing =>
            /\ pc' = "exit" /\ exit_code' = 1
            /\ stdout' = Append(stdout, Msg("generated_mar_file_is_missing"))
            /\ mo_files' = mo_files /\ mo_dirs' = mo_dirs]_vars
    /\ [](LastIs("move_mar", "exit") =>
            /\ pc = "exit" /\ exit_code = 1
            /\ OldName(args.model_name) \notin mo_dirs[tmp_dir]
            /\ mo_files = fs0.mo_files
            /\ MarName(args.model_name, ExpectedVersion) \notin mo_files)

\* C15: the generator left a byproduct but no archive, and the run ended
C15_Witness ==
    /\ pc = "exit"
    /\ LastIs("move_mar", "exit")
    /\ mo_dirs[tmp_dir] = {Byproduct(1)}

-----------------------------------------------------------------------------
(* C16 *)

\* the fields of the request that the claim says stay as the resolver left them
FrozenFields(m) ==
    <<m.model_name, m.repo_id, m.repo_version, m.model_path, m.mar_output,
      m.hf_token, m.download_model>>

\* C16: no step after the registry lookup changes model_name, repo_id,
\* repo_version, model_path, mar_output, hf_token or download_model; such a
\* step changes handler_path only from empty, and then to the registry's
\* handler of the model, joined to the directory of download.py; a
\* handler_path given on the command line is the one the request keeps.
C16_RequestFrozen ==
    /\ [][PastResolver =>
            /\ FrozenFields(dl_model') = FrozenFields(dl_model)
            /\ dl_model'.debug = dl_model.debug
            /\ dl_model'.handler_path # dl_model.handler_path =>
                 /\ dl_model.handler_path = <<>>
                 /\ dl_model'.handler_path =
                      <<"llm", "/", models[args.model_name].handler>>]_vars
    /\ []((pc # "set_values" /\ args.handler_path # <<>>) =>
             dl_model.handler_path = args.handler_path)

\* C16: a run without --handler_path has taken the handler from the registry
C16_Witness ==
    /\ pc = "create_tmp_model_store"
    /\ args.handler_path = <<>>
    /\ dl_model.handler_path = <<"llm", "/", "gpt2_handler.py">>

-----------------------------------------------------------------------------
(* C17 *)

\* --no_download was given: argparse stores False (store_false, line 176)
NoDownloadGiven == ~args.no_download

\* what model_path held at the start matches the repository at the revision
StartFilesMatch ==
    SameMultiset(CHOOSE l \in os_listdir(fs0.mp_files) : TRUE,
                 filter_files_by_extension(
                     RemoteFiles(models[args.model_name].repo_id,
                                 ExpectedVersion),
                     FILE_EXTENSIONS_TO_IGNORE))

\* C17: with --no_download neither the emptiness check nor the snapshot
\* download is ever called and model_path holds what it held at the start;
\* the step after the archive-absence check is the reconciliation, its
\* verdict is the one for the files model_path held at the start, and the
\* staging directory, the generator and the move come only after a match.
C17_NoDownload ==
    NoDownloadGiven =>
      /\ ~Called("check_if_folder_empty")
      /\ ~Called("snapshot_download")
      /\ mp_files = fs0.mp_files
      /\ \A i \in 1..Len(log) :
           /\ (log[i].op = "check_if_mar_exists" /\ i < Len(log)) =>
                log[i + 1].op = "list_repo_files"
           /\ (log[i].op = "list_repo_files" /\ log[i].result # "raise") =>
                (log[i].result = "match" <=> StartFilesMatch)
           /\ log[i].op \in {"create_tmp_model_store", "generate_mars",
                             "move_mar"} =>
                \E j \in 1..(i - 1) :
                   log[j].op = "list_repo_files" /\ log[j].result = "match"

\* C17: a run with --no_download packaged the files it found and finished
C17_Witness ==
    /\ NoDownloadGiven
    /\ fs0.mp_files # {}
    /\ Done
    /\ exit_code = 0

-----------------------------------------------------------------------------
(* C18 *)

\* some "*" + extension pattern of the ignore list matches the name
Excluded(f) ==
    \E i \in 1..Len(FILE_EXTENSIONS_TO_IGNORE) :
        GlobMatch(get_ignore_pattern_list(FILE_EXTENSIONS_TO_IGNORE)[i], f)

\* C18: the ignore patterns of the download exclude exactly the remote
\* files that filter_files_by_extension removes, and the reconciliation
\* that follows a completed download into the empty model_path, when its
\* listing call returns, finds the local listing equal to the expected set.
C18_DownloadThenReconcile ==
    \A i \in 1..Len(log) :
       (log[i].op = "snapshot_download" /\ log[i].result = "ok") =>
          /\ \A f \in Range(RemoteFiles(log[i].repo_id, log[i].revision)) :
                Excluded(f) <=> PatternFound(FILE_EXTENSIONS_TO_IGNORE, f)
          /\ (i < Len(log) /\ log[i + 1].result # "raise") =>
                log[i + 1].result = "match"

-----------------------------------------------------------------------------
(* C19 *)

\* the abort paths that end a run before the staging directory is made
AbortsBeforePackaging == AbortPaths \ {<<"move_mar", "exit">>}

PackagingOps == {"create_tmp_model_store", "generate_mars", "move_mar", "rm_dir"}

\* C19: a path error, an existing archive, a resolver failure, a non-empty
\* model_path, a download failure, a listing failure or a reconciliation
\* mismatch ends the run at once with exit code 1; the staging directories
\* and the archive files of the output directory are then as they were at
\* the start, no staging directory was named and no step of the packaging
\* was called; and a run that ends without having made the staging
\* directory was ended by one of these.
C19_AbortsLeaveOutput ==
    /\ \A i \in 1..Len(log) :
         <<log[i].op, log[i].result>> \in AbortsBeforePackaging =>
            /\ i = Len(log)
            /\ pc = "exit" /\ exit_code = 1
            /\ OutputUntouched
            /\ tmp_dir = NoDir
            /\ \A j \in 1..Len(log) : log[j].op \notin PackagingOps
    /\ (pc = "exit" /\ ~Called("create_tmp_model_store")) =>
         <<Last.op, Last.result>> \in AbortsBeforePackaging

\* C19: the reconciliation did not match, and the staging directory left
\* by an earlier run is still in the output directory
C19_Witness ==
    /\ pc = "exit"
    /\ LastIs("list_repo_files", "mismatch")
    /\ TmpName(args.model_name, ExpectedVersion) \in DOMAIN mo_dirs
    /\ mo_dirs = fs0.mo_dirs

====
